---- MODULE Spec2Model ----
(***************************************************************************)
(* The interview session orchestrator (the App component), the speech      *)
(* recognition hook it drives and the three exchange calls of              *)
(* geminiService, as one state machine.                                    *)
(*                                                                         *)
(* Every event handler runs to completion, together with the effects of    *)
(* the render that commits its updates (the transcript sync effect and     *)
(* the timer effect).  Updates made in one handler, or in one              *)
(* continuation after an await, are committed by one render.  An async     *)
(* handler is split at its await: the part before it is one action, the    *)
(* part after it is another, run when the exchange call returns, and the   *)
(* values the handler's closure captured before the await travel with the  *)
(* outstanding call.                                                       *)
(***************************************************************************)
EXTENDS Integers, Sequences, FiniteSets, Bags, TLC

VARIABLES
    status,             \* state.status
    timeLimitMinutes,   \* state.timeLimitMinutes
    timeLeftSeconds,    \* state.timeLeftSeconds
    currentTranscript,  \* state.currentTranscript (the active buffer)
    qnaHistory,         \* state.qnaHistory (the ledger)
    finalResult,        \* state.finalResult
    error,              \* state.error
    text,               \* useSpeechRecognition: text
    isListening,        \* useSpeechRecognition: isListening
    isSupported,        \* useSpeechRecognition: isSupported
    recognition,        \* the SpeechRecognition engine behind recognitionRef
    timerRef,           \* the interval of the timer effect, with its closure
    chatSession,        \* geminiService: chatSession is set
    calls,              \* exchange calls awaiting their response
    lastEvent           \* the handler that ran last (history variable)

vars == <<status, timeLimitMinutes, timeLeftSeconds, currentTranscript,
          qnaHistory, finalResult, error, text, isListening, isSupported,
          recognition, timerRef, chatSession, calls, lastEvent>>

(***************************************************************************)
(* Bounds of the model.                                                    *)
(***************************************************************************)
\* largest time limit the slider is moved to (the slider allows 1..10)
MaxTimeLimitMinutes == 1
\* length of one minute of countdown in ticks (60 in the source)
TicksPerMinute == 2
\* a submit is accepted while the ledger is shorter than this
MaxTurns == 2
\* exchange calls outstanding at the same time
MaxCalls == 2

(***************************************************************************)
(* Values.                                                                 *)
(***************************************************************************)
IDLE == "IDLE"
INITIALIZING == "INITIALIZING"
INTERVIEW_ACTIVE == "INTERVIEW_ACTIVE"
PROCESSING_ANSWER == "PROCESSING_ANSWER"
FINISHED == "FINISHED"

AppStatus == {IDLE, INITIALIZING, INTERVIEW_ACTIVE, PROCESSING_ANSWER, FINISHED}

\* Texts are sequences of characters.
Empty == <<>>
\* what the recognizer may publish as the accumulated utterance
Utterances == {<<" ">>, <<"a">>}
\* what the collaborator may return
Questions == {"Q1", "Q2"}
Evaluations == {"E1"}
TurnResponses == [evaluation : Evaluations, nextQuestion : Questions]

NoEvaluation == "undefined"
NoError == "null"
\* finalResult and timerRef hold null or one value: <<>> or <<value>>
NoResult == <<>>
NoTimer == <<>>

StartError == "start failed"
AnswerError == "answer failed"

\* a parsed report of the collaborator, and the placeholder of the catch block
ParsedReport == [score |-> 85, summary |-> "summary", advice |-> "advice"]
\* as PlaceholderReport, with a score that is not 0
PlaceholderReportScored ==
    [score |-> 50, summary |-> "Error generating report.", advice |-> "Please try again."]
PlaceholderReport ==
    [score |-> 0, summary |-> "Error generating report.", advice |-> "Please try again."]
FinalResults == {ParsedReport, PlaceholderReport}

(***************************************************************************)
(* String.prototype.trim on character sequences.                           *)
(***************************************************************************)
RECURSIVE TrimStart(_)
TrimStart(s) ==
    IF s # <<>> /\ Head(s) = " " THEN TrimStart(Tail(s)) ELSE s

RECURSIVE TrimEnd(_)
TrimEnd(s) ==
    IF s # <<>> /\ s[Len(s)] = " " THEN TrimEnd(SubSeq(s, 1, Len(s) - 1)) ELSE s

trim(s) == TrimEnd(TrimStart(s))

(***************************************************************************)
(* The speech recognition hook.  Its callbacks are memoized on             *)
(* isListening, so a callback reads the isListening of the render that     *)
(* created it: closureListening.  recognitionRef.current is set exactly    *)
(* when the browser supports recognition.                                  *)
(***************************************************************************)
Hook == [text |-> text, isListening |-> isListening, recognition |-> recognition]

startListening(h, closureListening) ==
    IF isSupported /\ ~closureListening
    THEN IF h.recognition = "idle"
         THEN [text |-> Empty, isListening |-> TRUE, recognition |-> "running"]
         ELSE \* start() throws on an engine that is already started; the
              \* catch logs it, after setText('') has run
              [h EXCEPT !.text = Empty]
    ELSE h

stopListening(h, closureListening) ==
    IF isSupported /\ closureListening
    THEN [h EXCEPT !.isListening = FALSE, !.recognition = "idle"]
    ELSE h

\* as resetText, leaving the text
resetTextKeeps(h) == h

resetText(h) == [h EXCEPT !.text = Empty]

\* recognition.onend is created by the effect that runs at mount, when
\* isListening is false, and reads that value ever after
OnEndClosureListening == FALSE

(***************************************************************************)
(* Views: which controls are rendered.                                     *)
(***************************************************************************)
SetupView == status = IDLE
ResultView == status = FINISHED /\ finalResult # NoResult
InterviewView == ~SetupView /\ ~ResultView

(***************************************************************************)
(* The ledger.                                                             *)
(***************************************************************************)
FirstQnA(initialData) ==
    [id |-> 1, question |-> initialData.nextQuestion, answer |-> Empty,
     evaluation |-> NoEvaluation]

\* as NewHistory, but the pushed turn takes the id of the turn before it
NewHistoryIdOfLast(prev, currentAnswer, response) ==
    LET closed == IF Len(prev) = 0
                  THEN prev
                  ELSE [prev EXCEPT ![Len(prev)] =
                           [@ EXCEPT !.answer = currentAnswer,
                                     !.evaluation = response.evaluation]]
    IN  Append(closed, [id |-> Len(closed),
                        question |-> response.nextQuestion,
                        answer |-> Empty,
                        evaluation |-> NoEvaluation])

\* as NewHistory, but the last turn is left as it was
NewHistoryLeavesOpen(prev, currentAnswer, response) ==
    Append(prev, [id |-> Len(prev) + 1,
                  question |-> response.nextQuestion,
                  answer |-> Empty,
                  evaluation |-> NoEvaluation])

\* the updater of submitAnswer: close the last turn, push the next question.
\* On an empty array lastIdx is -1 and the assignment adds no element.
NewHistory(prev, currentAnswer, response) ==
    LET closed == IF Len(prev) = 0
                  THEN prev
                  ELSE [prev EXCEPT ![Len(prev)] =
                           [@ EXCEPT !.answer = currentAnswer,
                                     !.evaluation = response.evaluation]]
    IN  Append(closed, [id |-> Len(closed) + 1,
                        question |-> response.nextQuestion,
                        answer |-> Empty,
                        evaluation |-> NoEvaluation])

\* qnaHistory.filter(q => q.answer.trim() !== '')
ValidHistory(history) == SelectSeq(history, LAMBDA q : trim(q.answer) # Empty)

(***************************************************************************)
(* Outstanding exchange calls.  A call carries what its handler holds      *)
(* across the await: the isListening its startListening reads, for         *)
(* sendAnswer the answer and the qnaHistory of the state the handler       *)
(* closed over, for generateFinalReport the list handed over.              *)
(* quitSince records a quit after the call was issued (history field).     *)
(***************************************************************************)
Call(op, listening, answer, history, valid) ==
    [op |-> op, isListening |-> listening, currentAnswer |-> answer,
     qnaHistory |-> history, validHistory |-> valid, quitSince |-> FALSE]

Outstanding == BagToSet(calls)
Issue(c) == calls (+) SetToBag({c})
Return(bag, c) == bag (-) SetToBag({c})
CanIssue == BagCardinality(calls) < MaxCalls

\* every outstanding call sees the quit
MarkQuit(bag) ==
    [m \in {[c EXCEPT !.quitSince = TRUE] : c \in BagToSet(bag)} |->
        CopiesIn(m, bag) + CopiesIn([m EXCEPT !.quitSince = FALSE], bag)]

(***************************************************************************)
(* Effects of the render that commits an action's updates.                 *)
(***************************************************************************)
\* "Sync Speech Text to State": runs when speechText or status changed
SyncTranscript(handlerValue) ==
    currentTranscript' =
        IF status' = INTERVIEW_ACTIVE /\ (text' # text \/ status' # status)
        THEN text'
        ELSE handlerValue

\* as TimerEffect, without the test of status
TimerEffectAnyStatus ==
    timerRef' =
        IF status' # status \/ timeLeftSeconds' # timeLeftSeconds
        THEN IF timeLeftSeconds' > 0
             THEN <<[qnaHistory |-> qnaHistory', isListening |-> isListening']>>
             ELSE NoTimer
        ELSE timerRef

\* "Timer Logic": runs when status or timeLeftSeconds changed; the interval
\* callback keeps the finishInterview of that render
TimerEffect ==
    timerRef' =
        IF status' # status \/ timeLeftSeconds' # timeLeftSeconds
        THEN IF status' = INTERVIEW_ACTIVE /\ timeLeftSeconds' > 0
             THEN <<[qnaHistory |-> qnaHistory', isListening |-> isListening']>>
             ELSE NoTimer
        ELSE timerRef

SetHook(h) ==
    /\ text' = h.text
    /\ isListening' = h.isListening
    /\ recognition' = h.recognition

(***************************************************************************)
(* Initial state: the first render of App, after the mount effects.        *)
(***************************************************************************)
Init ==
    /\ status = IDLE
    /\ timeLimitMinutes = 5
    /\ timeLeftSeconds = 0
    /\ currentTranscript = Empty
    /\ qnaHistory = <<>>
    /\ finalResult = NoResult
    /\ error = NoError
    /\ text = Empty
    /\ isListening = FALSE
    /\ isSupported \in BOOLEAN
    /\ recognition = "idle"
    /\ timerRef = NoTimer
    /\ chatSession = FALSE
    /\ calls = EmptyBag
    /\ lastEvent = "mount"

(***************************************************************************)
(* Setup view.                                                             *)
(***************************************************************************)
SetTimeLimit(m) ==
    /\ SetupView
    /\ timeLimitMinutes' = m
    /\ lastEvent' = "setTimeLimit"
    /\ UNCHANGED <<status, timeLeftSeconds, currentTranscript, qnaHistory,
                   finalResult, error, text, isListening, isSupported,
                   recognition, timerRef, chatSession, calls>>

\* as StartEnabled, for a button that is never disabled
StartEnabledAlways == TRUE

\* the start button is disabled unless isSpeechSupported
StartEnabled == isSupported

\* the start command: a click on the disabled button runs no handler,
\* otherwise startInterview up to its await
startInterview ==
    /\ SetupView
    /\ IF StartEnabled
       THEN /\ timeLimitMinutes <= MaxTimeLimitMinutes
            /\ CanIssue
            /\ status' = INITIALIZING
            /\ timeLeftSeconds' = timeLimitMinutes * TicksPerMinute
            /\ qnaHistory' = <<>>
            /\ finalResult' = NoResult
            /\ error' = NoError
            /\ chatSession' = TRUE
            /\ calls' = Issue(Call("startSession", isListening, Empty, <<>>, <<>>))
       ELSE UNCHANGED <<status, timeLeftSeconds, qnaHistory, finalResult, error,
                        chatSession, calls>>
    /\ UNCHANGED <<timeLimitMinutes, text, isListening, isSupported, recognition>>
    /\ SyncTranscript(currentTranscript)
    /\ TimerEffect
    /\ lastEvent' = "startInterview"

\* startInterview after its await: the first question, or the catch block
StartSessionReturns(c) ==
    /\ c \in Outstanding
    /\ c.op = "startSession"
    /\ calls' = Return(calls, c)
    /\ \/ \E initialData \in TurnResponses :
            /\ status' = INTERVIEW_ACTIVE
            /\ qnaHistory' = <<FirstQnA(initialData)>>
            /\ SetHook(startListening(resetText(Hook), c.isListening))
            /\ error' = error
            /\ lastEvent' = "startSession ok"
       \/ /\ status' = IDLE
          /\ error' = StartError
          /\ UNCHANGED <<qnaHistory, text, isListening, recognition>>
          /\ lastEvent' = "startSession failed"
    /\ UNCHANGED <<timeLimitMinutes, timeLeftSeconds, finalResult, isSupported,
                   chatSession>>
    /\ SyncTranscript(currentTranscript)
    /\ TimerEffect

(***************************************************************************)
(* Interview view.                                                         *)
(***************************************************************************)
quitInterview ==
    /\ InterviewView
    /\ SetHook(stopListening(Hook, isListening))
    /\ timerRef' = NoTimer
    /\ status' = IDLE
    /\ SyncTranscript(Empty)
    /\ calls' = MarkQuit(calls)
    /\ lastEvent' = "quitInterview"
    /\ UNCHANGED <<timeLimitMinutes, timeLeftSeconds, qnaHistory, finalResult,
                   error, isSupported, chatSession>>

\* as SubmitAccepted, without the trim
SubmitAcceptedUntrimmed ==
    /\ status = INTERVIEW_ACTIVE
    /\ currentTranscript # Empty

\* the two early returns of submitAnswer
SubmitAccepted ==
    /\ status = INTERVIEW_ACTIVE
    /\ trim(currentTranscript) # Empty

\* submitAnswer up to its await
submitAnswer ==
    /\ InterviewView
    /\ IF SubmitAccepted
       THEN /\ Len(qnaHistory) < MaxTurns
            /\ CanIssue
            /\ SetHook(stopListening(Hook, isListening))
            /\ status' = PROCESSING_ANSWER
            /\ calls' = Issue(Call("sendAnswer", isListening, currentTranscript,
                                   qnaHistory, <<>>))
       ELSE UNCHANGED <<text, isListening, recognition, status, calls>>
    /\ lastEvent' = "submitAnswer"
    /\ UNCHANGED <<timeLimitMinutes, timeLeftSeconds, qnaHistory, finalResult,
                   error, isSupported, chatSession>>
    /\ SyncTranscript(currentTranscript)
    /\ TimerEffect

\* submitAnswer after its await: the continuation, or the catch block.
\* sendAnswer throws at once when no chat session exists.
SendAnswerReturns(c) ==
    /\ c \in Outstanding
    /\ c.op = "sendAnswer"
    /\ calls' = Return(calls, c)
    /\ \/ \E response \in TurnResponses :
            /\ chatSession
            /\ qnaHistory' = NewHistory(qnaHistory, c.currentAnswer, response)
            /\ SetHook(startListening(resetText(Hook), c.isListening))
            /\ error' = error
            /\ status' = INTERVIEW_ACTIVE
            /\ SyncTranscript(Empty)
            /\ lastEvent' = "sendAnswer ok"
       \/ /\ qnaHistory' = qnaHistory
          /\ SetHook(startListening(Hook, c.isListening))
          /\ error' = AnswerError
          /\ status' = INTERVIEW_ACTIVE
          /\ SyncTranscript(currentTranscript)
          /\ lastEvent' = "sendAnswer failed"
    /\ UNCHANGED <<timeLimitMinutes, timeLeftSeconds, finalResult, isSupported,
                   chatSession>>
    /\ TimerEffect

\* the mic button
ToggleMic ==
    /\ InterviewView
    /\ SetHook(IF isListening THEN stopListening(Hook, isListening)
                              ELSE startListening(Hook, isListening))
    /\ lastEvent' = "toggleMic"
    /\ UNCHANGED <<status, timeLimitMinutes, timeLeftSeconds, qnaHistory,
                   finalResult, error, isSupported, chatSession, calls>>
    /\ SyncTranscript(currentTranscript)
    /\ TimerEffect

(***************************************************************************)
(* The timer.  The interval callback calls the finishInterview of the      *)
(* render in which the timer effect last ran: its state.qnaHistory and its *)
(* stopListening are the ones kept in timerRef.                            *)
(***************************************************************************)
\* finishInterview up to its await
finishInterview(closure) ==
    /\ CanIssue
    /\ SetHook(stopListening(Hook, closure.isListening))
    /\ status' = PROCESSING_ANSWER
    /\ calls' = Issue(Call("generateFinalReport", FALSE, Empty, <<>>,
                           ValidHistory(closure.qnaHistory)))

\* as TimerTick, with the test timeLeftSeconds <= 2
TimerTickEarly ==
    /\ timerRef # NoTimer
    /\ IF timeLeftSeconds <= 2
       THEN /\ finishInterview(timerRef[1])
            /\ timeLeftSeconds' = 0
            /\ lastEvent' = "time is up"
       ELSE /\ timeLeftSeconds' = timeLeftSeconds - 1
            /\ UNCHANGED <<status, calls, text, isListening, recognition>>
            /\ lastEvent' = "tick"
    /\ UNCHANGED <<timeLimitMinutes, qnaHistory, finalResult, error, isSupported,
                   chatSession>>
    /\ SyncTranscript(currentTranscript)
    /\ TimerEffect

TimerTick ==
    /\ timerRef # NoTimer
    /\ IF timeLeftSeconds <= 1
       THEN /\ finishInterview(timerRef[1])
            /\ timeLeftSeconds' = 0
            /\ lastEvent' = "time is up"
       ELSE /\ timeLeftSeconds' = timeLeftSeconds - 1
            /\ UNCHANGED <<status, calls, text, isListening, recognition>>
            /\ lastEvent' = "tick"
    /\ UNCHANGED <<timeLimitMinutes, qnaHistory, finalResult, error, isSupported,
                   chatSession>>
    /\ SyncTranscript(currentTranscript)
    /\ TimerEffect

\* as GenerateFinalReportReturns, for a generateFinalReport that rejects:
\* the catch block of finishInterview sets Finished with no report
GenerateFinalReportThrows(c) ==
    /\ c \in Outstanding
    /\ c.op = "generateFinalReport"
    /\ calls' = Return(calls, c)
    /\ finalResult' = finalResult
    /\ lastEvent' = "generateFinalReport failed"
    /\ status' = FINISHED
    /\ UNCHANGED <<timeLimitMinutes, timeLeftSeconds, qnaHistory, error, text,
                   isListening, isSupported, recognition, chatSession>>
    /\ SyncTranscript(currentTranscript)
    /\ TimerEffect

\* finishInterview after its await.  generateFinalReport catches every
\* failure and returns the placeholder, so the catch block of
\* finishInterview is never entered.
GenerateFinalReportReturns(c) ==
    /\ c \in Outstanding
    /\ c.op = "generateFinalReport"
    /\ calls' = Return(calls, c)
    /\ \E result \in FinalResults :
          /\ finalResult' = <<result>>
          /\ lastEvent' = IF result = PlaceholderReport
                          THEN "generateFinalReport failed"
                          ELSE "generateFinalReport ok"
    /\ status' = FINISHED
    /\ UNCHANGED <<timeLimitMinutes, timeLeftSeconds, qnaHistory, error, text,
                   isListening, isSupported, recognition, chatSession>>
    /\ SyncTranscript(currentTranscript)
    /\ TimerEffect

(***************************************************************************)
(* Result view.                                                            *)
(***************************************************************************)
ReturnHome ==
    /\ ResultView
    /\ status' = IDLE
    /\ lastEvent' = "returnHome"
    /\ UNCHANGED <<timeLimitMinutes, timeLeftSeconds, qnaHistory, finalResult,
                   error, text, isListening, isSupported, recognition,
                   chatSession, calls>>
    /\ SyncTranscript(currentTranscript)
    /\ TimerEffect

(***************************************************************************)
(* Events of the recognition engine.                                       *)
(***************************************************************************)
\* recognition.onresult: the accumulated utterance since start()
OnResult(currentContent) ==
    /\ recognition # "idle"
    /\ text' = currentContent
    /\ lastEvent' = "onresult"
    /\ UNCHANGED <<status, timeLimitMinutes, timeLeftSeconds, qnaHistory,
                   finalResult, error, isListening, isSupported, recognition,
                   chatSession, calls>>
    /\ SyncTranscript(currentTranscript)
    /\ TimerEffect

\* recognition.onend, when the engine ends by itself (after stop() the
\* handler changes nothing either)
OnEnd ==
    /\ recognition # "idle"
    /\ recognition' = "idle"
    /\ isListening' = IF OnEndClosureListening THEN FALSE ELSE isListening
    /\ lastEvent' = "onend"
    /\ UNCHANGED <<status, timeLimitMinutes, timeLeftSeconds, qnaHistory,
                   finalResult, error, text, isSupported, chatSession, calls>>
    /\ SyncTranscript(currentTranscript)
    /\ TimerEffect

\* recognition.onerror; the engine ends with the error
OnError ==
    /\ recognition # "idle"
    /\ recognition' = "idle"
    /\ isListening' = FALSE
    /\ lastEvent' = "onerror"
    /\ UNCHANGED <<status, timeLimitMinutes, timeLeftSeconds, qnaHistory,
                   finalResult, error, text, isSupported, chatSession, calls>>
    /\ SyncTranscript(currentTranscript)
    /\ TimerEffect

Next ==
    \/ \E m \in 1..MaxTimeLimitMinutes : SetTimeLimit(m)
    \/ startInterview
    \/ \E c \in Outstanding : StartSessionReturns(c)
    \/ quitInterview
    \/ submitAnswer
    \/ \E c \in Outstanding : SendAnswerReturns(c)
    \/ ToggleMic
    \/ TimerTick
    \/ \E c \in Outstanding : GenerateFinalReportReturns(c)
    \/ ReturnHome
    \/ \E currentContent \in Utterances : OnResult(currentContent)
    \/ OnEnd
    \/ OnError

Spec == Init /\ [][Next]_vars

\* every exchange call eventually returns or fails: the awaited promises of
\* startInterview, submitAnswer and finishInterview settle
FairSpec ==
    /\ Spec
    /\ WF_vars(\E c \in Outstanding : StartSessionReturns(c))
    /\ WF_vars(\E c \in Outstanding : SendAnswerReturns(c))
    /\ WF_vars(\E c \in Outstanding : GenerateFinalReportReturns(c))

(***************************************************************************)
(* Properties.                                                             *)
(***************************************************************************)
OpenTurns == {i \in 1..Len(qnaHistory) : qnaHistory[i].answer = Empty}
Blank(s) == \A i \in 1..Len(s) : s[i] = " "

\* C1: the turns of the ledger carry the ids 1..N in ledger order, with no
\* gap and no repeat.
C1_IdsAreOneToN ==
    \A i \in 1..Len(qnaHistory) : qnaHistory[i].id = i

\* a continuation response has appended a turn to a ledger of turns
C1_Witness ==
    /\ lastEvent = "sendAnswer ok"
    /\ Len(qnaHistory) >= 2

C3_IgnoredSubmitChangesNothing ==
    [][(/\ lastEvent' = "submitAnswer"
        /\ status # INTERVIEW_ACTIVE \/ Blank(currentTranscript))
       => UNCHANGED <<status, qnaHistory, isListening, recognition, calls>>]_vars

\* a submit command has been processed on a whitespace-only buffer
C3_Witness ==
    /\ lastEvent = "submitAnswer"
    /\ status = INTERVIEW_ACTIVE
    /\ currentTranscript = <<" ">>
    /\ isListening

\* the response to call c arrives in this step
Returns(c) == c \in Outstanding /\ calls' = Return(calls, c)
SendAnswerFails(c) ==
    c.op = "sendAnswer" /\ Returns(c) /\ lastEvent' = "sendAnswer failed"
SendAnswerSucceeds(c) ==
    c.op = "sendAnswer" /\ Returns(c) /\ lastEvent' = "sendAnswer ok"

\* the deadline has expired in this session and its report is awaited
ExpiryPending ==
    \E c \in Outstanding : c.op = "generateFinalReport" /\ ~c.quitSince

\* the turns with a non-empty answer, in ledger order
ClosedTurns(history) == SelectSeq(history, LAMBDA q : q.answer # Empty)

\* C4: when the deadline reaches zero while status is Active, status becomes
\* Processing and then Finished without returning to Active in between.
C4_ExpiryNeverBackToActive ==
    [][/\ lastEvent' = "time is up" => status' = PROCESSING_ANSWER
       /\ (ExpiryPending /\ status = PROCESSING_ANSWER)
              => status' # INTERVIEW_ACTIVE]_vars

\* C5: the turn list handed to the final-report request at deadline expiry
\* is exactly the subsequence of the ledger's turns whose answer is
\* non-empty at that moment.
C5_ReportBuiltFromClosedTurns ==
    [][lastEvent' = "time is up"
       => calls' = Issue(Call("generateFinalReport", FALSE, Empty, <<>>,
                              ClosedTurns(qnaHistory)))]_vars

\* C6: when the sendAnswer exchange fails during Processing, the ledger is
\* identical to its value before the submit command and status returns to
\* Active.
C6_FailureLeavesLedgerAsSubmitted ==
    [][\A c \in Outstanding :
          (status = PROCESSING_ANSWER /\ SendAnswerFails(c))
             => /\ qnaHistory' = c.qnaHistory
                /\ status' = INTERVIEW_ACTIVE]_vars

\* C7: when the sendAnswer exchange fails during Processing, the active
\* buffer after the return to Active still holds the text that was
\* submitted.
C7_FailureKeepsBuffer ==
    [][\A c \in Outstanding :
          (status = PROCESSING_ANSWER /\ ~c.quitSince /\ SendAnswerFails(c))
             => currentTranscript' = c.currentAnswer]_vars

\* C8: after a failed sendAnswer exchange has returned the session to
\* Active the capture adapter is listening again, and so it is after a
\* successful continuation response.
C8_ListeningAfterResponse ==
    [][\A c \in Outstanding :
          (/\ status = PROCESSING_ANSWER
           /\ ~c.quitSince
           /\ SendAnswerFails(c) \/ SendAnswerSucceeds(c))
             => isListening']_vars

\* C9: on a successful continuation response the last (open) turn gets the
\* submitted answer and the response's evaluation, exactly one turn is
\* appended with id = previous length + 1, the response's nextQuestion and
\* an empty answer, earlier turns are unchanged and status returns to
\* Active.
C9_ContinuationClosesAndOpens ==
    [][\A c \in Outstanding :
          SendAnswerSucceeds(c)
             => \E response \in TurnResponses :
                   LET n == Len(qnaHistory) IN
                   /\ n >= 1
                   /\ qnaHistory[n].answer = Empty
                   /\ Len(qnaHistory') = n + 1
                   /\ qnaHistory'[n] =
                         [qnaHistory[n] EXCEPT !.answer = c.currentAnswer,
                                               !.evaluation = response.evaluation]
                   /\ qnaHistory'[n + 1] =
                         [id |-> n + 1, question |-> response.nextQuestion,
                          answer |-> Empty, evaluation |-> NoEvaluation]
                   /\ \A i \in 1..(n - 1) : qnaHistory'[i] = qnaHistory[i]
                   /\ status' = INTERVIEW_ACTIVE]_vars

\* C10: the response to a sendAnswer or final-report call that was
\* outstanding when the user quit changes neither status, ledger nor
\* report.
C10_ResponseAfterQuitIgnored ==
    [][\A c \in Outstanding :
          (/\ c.op \in {"sendAnswer", "generateFinalReport"}
           /\ c.quitSince
           /\ Returns(c))
             => UNCHANGED <<status, qnaHistory, finalResult>>]_vars

\* C11: at every moment at most one exchange call (startSession, sendAnswer
\* or generateFinalReport) is outstanding.
C11_AtMostOneCallOutstanding ==
    BagCardinality(calls) <= 1

\* C12: a submit that leaves Active for Processing stops the deadline timer
\* and the capture adapter, and while its sendAnswer call is outstanding no
\* tick is processed and no second submit is accepted.
C12_NoTickNoSubmitWhileOutstanding ==
    [][/\ (/\ lastEvent' = "submitAnswer"
           /\ status = INTERVIEW_ACTIVE
           /\ status' = PROCESSING_ANSWER)
              => /\ timerRef' = NoTimer
                 /\ ~isListening'
                 /\ recognition' = "idle"
       /\ \A c \in Outstanding :
             (c.op = "sendAnswer" /\ ~c.quitSince /\ c \in BagToSet(calls'))
                => /\ lastEvent' \notin {"tick", "time is up"}
                   /\ ~(lastEvent' = "submitAnswer" /\ calls' # calls)]_vars

\* C13: timeLeftSeconds never increases while status is Active and does
\* not change while status is Processing, so the countdown continues on
\* return to Active from the value it had on entering Processing.
C13_DeadlineFrozenWhileProcessing ==
    [][/\ status = INTERVIEW_ACTIVE => timeLeftSeconds' <= timeLeftSeconds
       /\ status = PROCESSING_ANSWER => timeLeftSeconds' = timeLeftSeconds]_vars

\* back in Active after a response, the timer runs again from a count that
\* had been ticked down before the submit
C13_Witness ==
    /\ lastEvent \in {"sendAnswer ok", "sendAnswer failed"}
    /\ status = INTERVIEW_ACTIVE
    /\ timeLeftSeconds = 1
    /\ timerRef # NoTimer
    /\ calls = EmptyBag

\* C14: the deadline expiry (finishInterview called from the timer) happens
\* only on the tick that takes the remaining count from 1 to 0, the count
\* is never negative, and only a start command raises it, so that a
\* session sees at most one expiry.
C14_ExpiryOnceAtZero ==
    [][/\ lastEvent' = "time is up"
             => timeLeftSeconds = 1 /\ timeLeftSeconds' = 0
       /\ timeLeftSeconds' >= 0
       /\ timeLeftSeconds' > timeLeftSeconds
             => lastEvent' = "startInterview"]_vars

\* the deadline has just expired
C14_Witness ==
    /\ lastEvent = "time is up"
    /\ timeLeftSeconds = 0
    /\ status = PROCESSING_ANSWER
    /\ timerRef = NoTimer

\* C15: a quit command issued in Initializing or Active leaves status Idle
\* with no open turn in the ledger, and from there status stays Idle, no
\* final-report request is issued and no report is set until the next
\* start command.  (After a quit with no sendAnswer or report call
\* outstanding the quit was not issued in Processing.)
C15_QuitDiscardsSession ==
    [][/\ (/\ lastEvent' = "quitInterview"
           /\ status \in {INITIALIZING, INTERVIEW_ACTIVE})
              => /\ status' = IDLE
                 /\ \A i \in 1..Len(qnaHistory') : qnaHistory'[i].answer # Empty
       /\ (/\ lastEvent = "quitInterview"
           /\ \A c \in Outstanding : c.op = "startSession")
              => \/ lastEvent' = "startInterview"
                 \/ /\ status' = IDLE
                    /\ finalResult' = finalResult
                    /\ \A c \in BagToSet(calls') :
                          c.op # "generateFinalReport"]_vars

\* C16: in every reachable state a final report is present only if status
\* is Finished; after the return home from Finished no report is present.
C16_ReportOnlyInFinished ==
    finalResult # NoResult => status = FINISHED

\* the response to call c is a failure of startSession
StartSessionFails(c) ==
    c.op = "startSession" /\ Returns(c) /\ lastEvent' = "startSession failed"

\* C17: when startSession fails during Initializing, status returns to Idle
\* with an error message set, the ledger is empty, and neither the deadline
\* timer nor the capture adapter is running.
C17_OpenFailureBackToIdle ==
    [][\A c \in Outstanding :
          (status = INITIALIZING /\ StartSessionFails(c))
             => /\ status' = IDLE
                /\ error' # NoError
                /\ qnaHistory' = <<>>
                /\ timerRef' = NoTimer
                /\ ~isListening'
                /\ recognition' = "idle"]_vars

\* C18: when the generation of the final report fails, status becomes
\* Finished with a locally made report of score 0; and, every exchange call
\* returning or failing eventually, status never stays Processing forever.
C18_ReportFailureStillFinishes ==
    /\ [][lastEvent' = "generateFinalReport failed"
             => /\ status' = FINISHED
                /\ finalResult' # NoResult
                /\ finalResult'[1].score = 0]_vars
    /\ (status = PROCESSING_ANSWER) ~> (status # PROCESSING_ANSWER)

\* the placeholder report has been set after a failed generation
C18_Witness ==
    /\ lastEvent = "generateFinalReport failed"
    /\ status = FINISHED
    /\ finalResult # NoResult
    /\ finalResult[1].score = 0

\* C19: when the capture adapter reports isSupported = false, a start
\* command changes no state and status never becomes Active.
C19_UnsupportedNeverStarts ==
    [][~isSupported
          => /\ status' # INTERVIEW_ACTIVE
             /\ lastEvent' = "startInterview"
                   => UNCHANGED <<status, timeLimitMinutes, timeLeftSeconds,
                                  currentTranscript, qnaHistory, finalResult,
                                  error, text, isListening, isSupported,
                                  recognition, timerRef, chatSession, calls>>]_vars

\* a start command has been given without capture support
C19_Witness ==
    /\ ~isSupported
    /\ lastEvent = "startInterview"
    /\ status = IDLE

\* C20: whenever status is Idle, Processing or Finished, the capture
\* adapter is not listening and the deadline timer is not ticking.
C20_NothingRunsOutsideActive ==
    status \in {IDLE, PROCESSING_ANSWER, FINISHED}
       => /\ ~isListening
          /\ recognition = "idle"
          /\ timerRef = NoTimer

\* C21: Finished is terminal: the only change of status that follows
\* Finished is the one to Idle by the return-home command.
C21_FinishedIsTerminal ==
    [][(status = FINISHED /\ status' # FINISHED)
          => /\ lastEvent' = "returnHome"
             /\ status' = IDLE]_vars

\* C22: when the capture stream ends by itself while the adapter is
\* listening, isListening becomes false and capture is not restarted.
C22_UnexpectedEndStopsListening ==
    [][(lastEvent' = "onend" /\ isListening)
          => /\ ~isListening'
             /\ recognition' = "idle"]_vars

\* what a call of start, and of stop, does to the adapter as claimed
StartContract ==
    IF isListening
    THEN UNCHANGED <<text, isListening, recognition>>
    ELSE text' = Empty /\ isListening' /\ recognition' = "running"
StopContract ==
    IF isListening
    THEN ~isListening' /\ recognition' = "idle" /\ text' = text
    ELSE UNCHANGED <<text, isListening, recognition>>

\* C23: on the capture adapter, start clears the accumulated text and begins
\* listening, stop halts listening and leaves the text unchanged; start
\* while listening and stop while not listening change nothing.  Stated for
\* the steps that call only start (toggle while paused, failed sendAnswer)
\* or only stop (toggle while listening, accepted submit, quit, expiry).
C23_StartStopContract ==
    [][/\ lastEvent' = "toggleMic"
             => IF isListening THEN StopContract ELSE StartContract
       /\ lastEvent' = "sendAnswer failed" => StartContract
       /\ (lastEvent' = "submitAnswer" /\ status' # status) => StopContract
       /\ lastEvent' \in {"quitInterview", "time is up"} => StopContract]_vars

\* C24: a turn with a non-empty answer keeps its question, answer and
\* evaluation under every later event of its session (a start command
\* begins a new ledger), and a turn with an empty answer has no evaluation.
C24_AnswerSetOnce ==
    [][/\ lastEvent' # "startInterview"
             => \A i \in 1..Len(qnaHistory) :
                   qnaHistory[i].answer # Empty
                      => /\ i <= Len(qnaHistory')
                         /\ qnaHistory'[i] = qnaHistory[i]
       /\ \A i \in 1..Len(qnaHistory') :
             qnaHistory'[i].answer = Empty
                => qnaHistory'[i].evaluation = NoEvaluation]_vars

\* C25: every turn except the last has a non-blank answer, and while status
\* is Active or Processing the ledger is non-empty and its last turn is the
\* one open turn.
C25_LastTurnIsTheOpenTurn ==
    /\ \A i \in 1..(Len(qnaHistory) - 1) : ~Blank(qnaHistory[i].answer)
    /\ status \in {INTERVIEW_ACTIVE, PROCESSING_ANSWER}
          => /\ qnaHistory # <<>>
             /\ OpenTurns = {Len(qnaHistory)}

\* C26: a capture snapshot changes the active buffer only while status is
\* Active, and the answer recorded by a continuation is the buffer value of
\* the accepted submit, recorded in the turn that was open at that submit.
C26_BufferFrozenAtSubmit ==
    [][/\ (lastEvent' = "onresult" /\ status # INTERVIEW_ACTIVE)
             => currentTranscript' = currentTranscript
       /\ \A c \in Outstanding :
             SendAnswerSucceeds(c)
                => LET n == Len(c.qnaHistory) IN
                   /\ n >= 1
                   /\ Len(qnaHistory') > n
                   /\ qnaHistory'[n].id = c.qnaHistory[n].id
                   /\ qnaHistory'[n].question = c.qnaHistory[n].question
                   /\ qnaHistory'[n].answer = c.currentAnswer]_vars

\* C27: when a new turn has been opened (the first question after a start,
\* the next question after a continuation response), the active buffer is
\* empty.
C27_NewTurnStartsWithEmptyBuffer ==
    [][lastEvent' \in {"startSession ok", "sendAnswer ok"}
          => currentTranscript' = Empty]_vars

\* the next question has arrived after a spoken answer of an earlier turn,
\* whose text was still held by the adapter when the response came
C27_Witness ==
    /\ lastEvent = "sendAnswer ok"
    /\ status = INTERVIEW_ACTIVE
    /\ Len(qnaHistory) >= 2
    /\ qnaHistory[Len(qnaHistory) - 1].answer # Empty
    /\ currentTranscript = Empty

\* C28: in every reachable state with status Finished a final report is
\* present.
C28_FinishedHasReport ==
    status = FINISHED => finalResult # NoResult

\* Finished with the report the collaborator returned
C28_Witness ==
    /\ status = FINISHED
    /\ lastEvent = "generateFinalReport ok"
    /\ finalResult = <<ParsedReport>>
    /\ ResultView
====
